---- MODULE Spec2Model ----
(***************************************************************************)
(* Date and time conversion of src/core/time.c (is_leap_year,              *)
(* leap_years_to_end, day_of_week, mktime, gmtime) and the "date" command  *)
(* of src/hci/commands/date_cmd.c.                                         *)
(*                                                                         *)
(* gmtime() is modelled statement by statement: its two search loops take  *)
(* one step per iteration, and it writes into the one static structure     *)
(* gmtime_tm.  The firmware is single threaded, so one gmtime() call is in *)
(* progress at a time; callers interleave between calls.                   *)
(***************************************************************************)
EXTENDS Integers, Sequences, FiniteSets, TLC

VARIABLES
    gmtime_tm,          \* static struct tm gmtime_tm
    pc,                 \* position of the gmtime() call: "idle", "year", "month"
    caller,             \* who made the current / most recent gmtime() call
    timep,              \* *timep of the current / most recent gmtime() call
    days_since_epoch,   \* gmtime() local
    seconds_since_day,  \* gmtime() local
    year,               \* gmtime() local
    month,              \* gmtime() local
    day,                \* gmtime() local
    is_leap,            \* gmtime() local
    ret,                \* value returned by the most recent gmtime() call
    ptr,                \* ptr[c]: caller c holds a pointer returned by gmtime()
    mk,                 \* mktime() has run on the most recent gmtime() result
    seconds,            \* value returned by the most recent mktime() call
    date_pc,            \* position of date_exec(): "none", "parse_error", "gmtime", "done"
    clock_ok,           \* the clock source was available when date_exec read it
    rc,                 \* status returned by the most recent date_exec()
    out,                \* line printed by the most recent date_exec()
    probe               \* leap-year probe: year examined and the two answers

vars == << gmtime_tm, pc, caller, timep, days_since_epoch, seconds_since_day,
           year, month, day, is_leap, ret, ptr, mk, seconds, date_pc, clock_ok, rc,
           out, probe >>

gmvars == << gmtime_tm, pc, caller, timep, days_since_epoch,
             seconds_since_day, year, month, day, is_leap, ret >>

datevars == << date_pc, clock_ok, rc, out >>

(***************************************************************************)
(* Bounds of the checked input sample.                                     *)
(***************************************************************************)
\* every day from the Epoch up to this one is decoded (1970-01-01 .. 1971-01-02)
MaxDay == 366
\* days decoded on each side of an anchor day
Window == 2
\* largest tm_year handed to the leap-year probe (year 2410)
MaxTmYear == 510

\* 1970-01-01, 1972-02-29, 1972-12-31, 2000-02-29, 2000-12-31, 2026-11-01,
\* 2036-02-29
AnchorDays == { 0, 789, 1095, 11016, 11322, 20758, 24165 }

\* seconds within the day at which the days around an anchor are decoded
DaySeconds == { 0, 3661, 86399 }

AnchorWindow ==
    { d \in { a + k : a \in AnchorDays, k \in ( 0 - Window ) .. Window } :
      d >= 0 }

\* non-negative epoch-seconds values: midnight of every day up to MaxDay,
\* and three times of day on the days around each anchor
Times == { d * 86400 : d \in 0 .. MaxDay } \cup
         { ( d * 86400 ) + s : d \in AnchorWindow, s \in DaySeconds }

\* negative epoch-seconds values
NegTimes == { -1, -60, -86400, -86401, -31622400 }

\* callers, other than the date command, that keep the pointer gmtime()
\* returned
Users == { "a" }

(***************************************************************************)
(* C integer division and remainder (truncation towards zero).             *)
(***************************************************************************)
CDiv ( a, b ) == IF a >= 0 THEN a \div b ELSE 0 - ( ( 0 - a ) \div b )

CMod ( a, b ) == IF a >= 0 THEN a % b ELSE 0 - ( ( 0 - a ) % b )

(***************************************************************************)
(* time.c helpers.                                                         *)
(***************************************************************************)
is_leap_year_no400 ( tm_year ) ==
    LET l1 == IF CMod ( tm_year, 4 ) = 0 THEN 1 ELSE 0
    IN  IF CMod ( tm_year, 100 ) = 0 THEN 0 ELSE l1

is_leap_year_400is0 ( tm_year ) ==
    LET l1 == IF CMod ( tm_year, 4 ) = 0 THEN 1 ELSE 0
        l2 == IF CMod ( tm_year, 100 ) = 0 THEN 0 ELSE l1
    IN  IF CMod ( tm_year, 400 ) = 0 THEN 1 ELSE l2

is_leap_year ( tm_year ) ==
    LET l1 == IF CMod ( tm_year, 4 ) = 0 THEN 1 ELSE 0
        l2 == IF CMod ( tm_year, 100 ) = 0 THEN 0 ELSE l1
    IN  IF CMod ( tm_year, 400 ) = 100 THEN 1 ELSE l2

leap_years_to_end_299 ( tm_year ) ==
    CDiv ( tm_year, 4 ) - CDiv ( tm_year, 100 ) + CDiv ( tm_year + 299, 400 )

leap_years_to_end ( tm_year ) ==
    CDiv ( tm_year, 4 ) - CDiv ( tm_year, 100 ) + CDiv ( tm_year + 300, 400 )

offset_swapped == << 1, 4, 3, 6, 1, 4, 6, 2, 5, 0, 5, 3 >>

offset == << 1, 4, 3, 6, 1, 4, 6, 2, 5, 0, 3, 5 >>

day_of_week_nopseudo ( tm_year, tm_mon, tm_mday ) ==
    CMod ( tm_year + leap_years_to_end ( tm_year ) +
           offset [ tm_mon + 1 ] + tm_mday, 7 )

day_of_week ( tm_year, tm_mon, tm_mday ) ==
    LET pseudo_year == IF tm_mon < 2 THEN tm_year - 1 ELSE tm_year
    IN  CMod ( pseudo_year + leap_years_to_end ( pseudo_year ) +
               offset [ tm_mon + 1 ] + tm_mday, 7 )

days_to_month_start_leap ==
    << 0, 31, 60, 91, 121, 152, 182, 213, 244, 274, 305, 335 >>

days_to_month_start ==
    << 0, 31, 59, 90, 120, 151, 181, 212, 243, 273, 304, 334 >>

(***************************************************************************)
(* mktime(): the fields it writes, its locals and its return value.        *)
(***************************************************************************)
mktime_yday ( tm ) ==
    LET yday == ( tm.tm_mday - 1 ) + days_to_month_start [ tm.tm_mon + 1 ]
    IN  IF ( tm.tm_mon >= 2 ) /\ ( is_leap_year ( tm.tm_year ) # 0 )
        THEN yday + 1 ELSE yday

mktime_tm ( tm ) ==
    [ tm EXCEPT !.tm_yday = mktime_yday ( tm ),
                !.tm_wday = day_of_week ( tm.tm_year, tm.tm_mon,
                                          tm.tm_mday ) ]

mktime_days_since_epoch ( tm ) ==
    mktime_yday ( tm ) + ( 365 * tm.tm_year ) - 25567 +
    leap_years_to_end ( tm.tm_year - 1 )

mktime_seconds_since_day ( tm ) ==
    ( ( ( tm.tm_hour * 60 ) + tm.tm_min ) * 60 ) + tm.tm_sec

mktime_seconds ( tm ) ==
    ( mktime_days_since_epoch ( tm ) * 86400 ) +
    mktime_seconds_since_day ( tm )

(***************************************************************************)
(* gmtime(): the tests and tables of its two search loops.                 *)
(***************************************************************************)
gmtime_is_leap ( y ) ==
    ( CMod ( y, 4 ) = 0 ) /\
    ( ( CMod ( y, 100 ) # 0 ) \/ ( CMod ( y, 400 ) = 0 ) )

days_in_year ( leap ) == IF leap THEN 366 ELSE 365

days_in_month_feb28 ( m, leap ) ==
    IF m = 1 THEN 28
    ELSE IF ( m = 3 ) \/ ( m = 5 ) \/ ( m = 8 ) \/ ( m = 10 ) THEN 30
    ELSE 31

days_in_month ( m, leap ) ==
    IF m = 1 THEN ( IF leap THEN 29 ELSE 28 )
    ELSE IF ( m = 3 ) \/ ( m = 5 ) \/ ( m = 8 ) \/ ( m = 10 ) THEN 30
    ELSE 31

year_found_offbyone ( d, diy ) == d <= diy

year_found ( d, diy ) == d < diy

ZeroTm == [ tm_sec |-> 0, tm_min |-> 0, tm_hour |-> 0, tm_mday |-> 0,
            tm_mon |-> 0, tm_year |-> 0, tm_wday |-> 0, tm_yday |-> 0,
            tm_isdst |-> 0 ]

(***************************************************************************)
(* date_cmd.c helpers: the clock read by time(), and printf's %0<w>d.      *)
(***************************************************************************)
\* values time ( NULL ) can return; without a clock source it has no
\* failure channel of its own and returns 0 or ( time_t ) -1
time_values ( ok ) == IF ok THEN Times ELSE { 0, -1 }

DigitChar == << "0", "1", "2", "3", "4", "5", "6", "7", "8", "9" >>

RECURSIVE Dec ( _ )
Dec ( n ) ==
    IF n < 10 THEN << DigitChar [ n + 1 ] >>
    ELSE Dec ( n \div 10 ) \o << DigitChar [ ( n % 10 ) + 1 ] >>

RECURSIVE ZeroPad ( _, _ )
ZeroPad ( s, w ) == IF Len ( s ) >= w THEN s ELSE ZeroPad ( << "0" >> \o s, w )

printf_0d ( n, w ) ==
    IF n < 0 THEN << "-" >> \o ZeroPad ( Dec ( 0 - n ), w - 1 )
    ELSE ZeroPad ( Dec ( n ), w )

date_line ( tm ) ==
    printf_0d ( tm.tm_year + 1900, 4 ) \o << "-" >> \o
    printf_0d ( tm.tm_mon + 1, 2 ) \o << "-" >> \o
    printf_0d ( tm.tm_mday, 2 ) \o << " " >> \o
    printf_0d ( tm.tm_hour, 2 ) \o << ":" >> \o
    printf_0d ( tm.tm_min, 2 ) \o << ":" >> \o
    printf_0d ( tm.tm_sec, 2 ) \o << " ", "U", "T", "C", "\n" >>

unable_line == << "Unable to get current time\n" >>

(***************************************************************************)
(* Initial state: static storage is zero, nothing has been called.         *)
(***************************************************************************)
NoProbe == [ tm_year |-> 0, done |-> FALSE, leap |-> 0, inline |-> FALSE ]

InitProgram ==
    /\ gmtime_tm = ZeroTm
    /\ pc = "idle"
    /\ caller = "none"
    /\ timep = 0
    /\ days_since_epoch = 0
    /\ seconds_since_day = 0
    /\ year = 0
    /\ month = 0
    /\ day = 0
    /\ is_leap = FALSE
    /\ ret = "none"
    /\ ptr = [ c \in Users |-> FALSE ]
    /\ mk = FALSE
    /\ seconds = 0
    /\ date_pc = "none"
    /\ clock_ok = TRUE
    /\ rc = 0
    /\ out = << >>

Init == InitProgram /\ probe = NoProbe

(***************************************************************************)
(* gmtime(), lines 157-226.                                                *)
(***************************************************************************)
\* lines 163-181: clear the structure, split the time, start the year search
GmtimeBegin ( c, t ) ==
    LET dse == CDiv ( t, 86400 )
        ssd == CMod ( t, 86400 )
        mins == CDiv ( ssd, 60 )
    IN  /\ pc = "idle"
        /\ gmtime_tm' = [ ZeroTm EXCEPT !.tm_sec = CMod ( ssd, 60 ),
                                        !.tm_min = CMod ( mins, 60 ),
                                        !.tm_hour = CDiv ( mins, 60 ),
                                        !.tm_wday = CMod ( dse + 4, 7 ) ]
        /\ days_since_epoch' = dse
        /\ seconds_since_day' = mins
        /\ year' = 1970
        /\ day' = dse
        /\ month' = 0
        /\ is_leap' = FALSE
        /\ pc' = "year"
        /\ caller' = c
        /\ timep' = t
        /\ ret' = "none"
        /\ mk' = FALSE
        /\ seconds' = 0

\* a caller other than the date command calls gmtime ( &t )
GmtimeCall ( c, t ) ==
    /\ GmtimeBegin ( c, t )
    /\ date_pc' = "none"
    /\ clock_ok' = TRUE
    /\ rc' = 0
    /\ out' = << >>
    /\ UNCHANGED << ptr, probe >>

\* lines 184-191, an iteration that does not leave the loop
YearAdvance ==
    LET leap == gmtime_is_leap ( year )
    IN  /\ pc = "year"
        /\ ~ year_found ( day, days_in_year ( leap ) )
        /\ is_leap' = leap
        /\ day' = day - days_in_year ( leap )
        /\ year' = year + 1
        /\ UNCHANGED << gmtime_tm, pc, caller, timep, days_since_epoch,
                        seconds_since_day, month, ret, ptr, mk, seconds,
                        datevars, probe >>

\* lines 184-188 leaving the loop, then lines 193-197
YearBreak ==
    LET leap == gmtime_is_leap ( year )
    IN  /\ pc = "year"
        /\ year_found ( day, days_in_year ( leap ) )
        /\ is_leap' = leap
        /\ gmtime_tm' = [ gmtime_tm EXCEPT !.tm_year = year - 1900,
                                           !.tm_yday = day ]
        /\ month' = 0
        /\ pc' = "month"
        /\ UNCHANGED << caller, timep, days_since_epoch, seconds_since_day,
                        year, day, ret, ptr, mk, seconds, datevars, probe >>

\* lines 198-214, an iteration that does not leave the loop
MonthAdvance ==
    /\ pc = "month"
    /\ month < 12
    /\ ~ ( day < days_in_month ( month, is_leap ) )
    /\ day' = day - days_in_month ( month, is_leap )
    /\ month' = month + 1
    /\ UNCHANGED << gmtime_tm, pc, caller, timep, days_since_epoch,
                    seconds_since_day, year, is_leap, ret, ptr, mk, seconds,
                    datevars, probe >>

\* the month search is over: month reached 12 or the break of line 211
month_done == ( month >= 12 ) \/ ( day < days_in_month ( month, is_leap ) )

\* line 225: what gmtime() returns
gmtime_return_value == "gmtime_tm"

\* lines 216-217: the structure as gmtime() leaves it
gmtime_result == [ gmtime_tm EXCEPT !.tm_mon = month, !.tm_mday = day + 1 ]

\* lines 216-225, returning to a caller that keeps the pointer
GmtimeReturn ==
    /\ pc = "month"
    /\ month_done
    /\ caller \in Users
    /\ gmtime_tm' = gmtime_result
    /\ ret' = gmtime_return_value
    /\ pc' = "idle"
    /\ ptr' = [ ptr EXCEPT ! [ caller ] = ( ret' # "NULL" ) ]
    /\ UNCHANGED << caller, timep, days_since_epoch, seconds_since_day, year,
                    month, day, is_leap, mk, seconds, datevars, probe >>

(***************************************************************************)
(* Callers of time.c.                                                      *)
(***************************************************************************)
\* mktime ( tm ), lines 118-146, on the structure gmtime() returned
Mktime ( c ) ==
    /\ pc = "idle"
    /\ ptr [ c ]
    /\ gmtime_tm' = mktime_tm ( gmtime_tm )
    /\ seconds' = mktime_seconds ( gmtime_tm )
    /\ mk' = TRUE
    /\ UNCHANGED << pc, caller, timep, days_since_epoch, seconds_since_day,
                    year, month, day, is_leap, ret, ptr, datevars, probe >>

\* a caller drops the pointer it held
Release ( c ) ==
    /\ pc = "idle"
    /\ ptr [ c ]
    /\ ptr' = [ ptr EXCEPT ! [ c ] = FALSE ]
    /\ UNCHANGED << gmvars, mk, seconds, datevars, probe >>

(***************************************************************************)
(* date_exec(), date_cmd.c lines 50-76.                                    *)
(***************************************************************************)
\* lines 57-58: parse_options() rejects the command line
DateExecParseError ==
    /\ pc = "idle"
    /\ date_pc' = "parse_error"
    /\ rc' = -1
    /\ out' = << >>
    /\ clock_ok' = TRUE
    /\ UNCHANGED << gmvars, ptr, mk, seconds, probe >>

\* lines 57-64: options parse, the clock is read, gmtime ( &now ) is entered
DateExecCall ( ok, now ) ==
    /\ now \in time_values ( ok )
    /\ GmtimeBegin ( "date", now )
    /\ date_pc' = "gmtime"
    /\ clock_ok' = ok
    /\ rc' = 0
    /\ out' = << >>
    /\ UNCHANGED << ptr, probe >>

\* gmtime() returns to date_exec(), then lines 65-75
DateExecFinish ==
    /\ pc = "month"
    /\ month_done
    /\ caller = "date"
    /\ gmtime_tm' = gmtime_result
    /\ ret' = gmtime_return_value
    /\ pc' = "idle"
    /\ date_pc' = "done"
    /\ IF ret' = "NULL"
       THEN /\ out' = unable_line
            /\ rc' = -1
       ELSE /\ out' = date_line ( gmtime_tm' )
            /\ rc' = 0
    /\ UNCHANGED << caller, timep, days_since_epoch, seconds_since_day, year,
                    month, day, is_leap, ptr, mk, seconds, clock_ok, probe >>

GmtimeStep ==
    YearAdvance \/ YearBreak \/ MonthAdvance \/ GmtimeReturn \/ DateExecFinish

Next ==
    \/ \E c \in Users : \E t \in Times \cup NegTimes : GmtimeCall ( c, t )
    \/ YearAdvance
    \/ YearBreak
    \/ MonthAdvance
    \/ GmtimeReturn
    \/ \E c \in Users : Mktime ( c )
    \/ \E c \in Users : Release ( c )
    \/ DateExecParseError
    \/ \E ok \in BOOLEAN : \E now \in Times \cup NegTimes : DateExecCall ( ok, now )
    \/ DateExecFinish

Spec == Init /\ [] [ Next ]_vars

\* a gmtime() call that has started runs to its return: nothing preempts it
FairSpec == Spec /\ WF_vars ( GmtimeStep )

(***************************************************************************)
(* Leap-year probe: is_leap_year() and gmtime()'s inline test applied to   *)
(* one year.                                                               *)
(***************************************************************************)
LeapInit ==
    /\ InitProgram
    /\ \E y \in 0 .. MaxTmYear :
          probe = [ tm_year |-> y, done |-> FALSE, leap |-> 0,
                    inline |-> FALSE ]

LeapApply ==
    /\ ~ probe.done
    /\ probe' = [ probe EXCEPT !.done = TRUE,
                               !.leap = is_leap_year ( probe.tm_year ),
                               !.inline = gmtime_is_leap ( 1900 +
                                                           probe.tm_year ) ]
    /\ UNCHANGED << gmvars, ptr, mk, seconds, datevars >>

LeapNext == LeapApply

LeapSpec == LeapInit /\ [] [ LeapNext ]_vars

(***************************************************************************)
(* Properties.                                                             *)
(***************************************************************************)
\* a gmtime() call on a non-negative time has returned
Decoded == ( pc = "idle" ) /\ ( ret = "gmtime_tm" ) /\ ( timep >= 0 )

\* the Gregorian rule on a calendar year, and the calendar it gives
GregorianLeap ( y ) ==
    ( ( y % 4 = 0 ) /\ ( y % 100 # 0 ) ) \/ ( y % 400 = 0 )

YearLength ( y ) == IF GregorianLeap ( y ) THEN 366 ELSE 365

MonthLength ( m, y ) ==
    IF m = 1 THEN ( IF GregorianLeap ( y ) THEN 29 ELSE 28 )
    ELSE IF m \in { 3, 5, 8, 10 } THEN 30 ELSE 31

\* C1: mktime applied to the broken-down time gmtime(t) produced, t >= 0,
\* returns exactly t.
RoundTrip == ( Decoded /\ mk ) => ( seconds = timep )

\* the present-day time 2026-11-01 01:01:01 has been decoded and re-encoded
RoundTripWitness ==
    Decoded /\ mk /\ ( timep = 1793494861 ) /\ ( seconds = 1793494861 )

\* C2: the tm_wday of gmtime(t), t >= 0, is ( days_since_epoch + 4 ) mod 7
\* and equals day_of_week of the decoded date, before and after mktime has
\* rewritten it.
WeekdayConsistent ==
    Decoded =>
        /\ gmtime_tm.tm_wday = ( days_since_epoch + 4 ) % 7
        /\ gmtime_tm.tm_wday = day_of_week ( gmtime_tm.tm_year,
                                             gmtime_tm.tm_mon,
                                             gmtime_tm.tm_mday )

\* mktime has rewritten the weekday of 2000-02-29, a Tuesday
WeekdayWitness ==
    Decoded /\ mk /\ ( timep = 951782400 ) /\ ( gmtime_tm.tm_wday = 2 )

\* C3: the tm_yday of gmtime(t), t >= 0, equals the day of year mktime
\* derives from the decoded month and day; 2000-02-29 is month 1, day 29,
\* day of year 59, and 2000-03-01 is day of year 60.
YdayConsistent ==
    Decoded =>
        /\ gmtime_tm.tm_yday = mktime_yday ( gmtime_tm )
        /\ ( timep = 951782400 ) =>
               /\ gmtime_tm.tm_year = 100
               /\ gmtime_tm.tm_mon = 1
               /\ gmtime_tm.tm_mday = 29
               /\ gmtime_tm.tm_yday = 59
        /\ ( timep = 951868800 ) =>
               /\ gmtime_tm.tm_year = 100
               /\ gmtime_tm.tm_mon = 2
               /\ gmtime_tm.tm_mday = 1
               /\ gmtime_tm.tm_yday = 60

\* 2000-03-01 has been decoded and mktime has recomputed its day of year
YdayWitness ==
    Decoded /\ mk /\ ( timep = 951868800 ) /\ ( gmtime_tm.tm_yday = 60 )

\* C4: is_leap_year(tm_year), tm_year >= 0, is 1 exactly when 1900+tm_year
\* is a Gregorian leap year and 0 otherwise, and from 1970 on it agrees with
\* the test gmtime computes on the full year.
LeapRule ==
    probe.done =>
        /\ probe.leap \in { 0, 1 }
        /\ ( probe.leap = 1 ) <=> GregorianLeap ( 1900 + probe.tm_year )
        /\ ( probe.tm_year >= 70 ) => ( ( probe.leap = 1 ) <=> probe.inline )
        /\ ( probe.tm_year \in { 0, 200 } ) => ( probe.leap = 0 )
        /\ ( probe.tm_year \in { 100, 500 } ) => ( probe.leap = 1 )

\* the year 2400 has been probed and found to be a leap year
LeapWitness ==
    probe.done /\ ( probe.tm_year = 500 ) /\ ( probe.leap = 1 ) /\ probe.inline

NegativeFails ==
    ( ( pc = "idle" ) /\ ( ret # "none" ) /\ ( timep < 0 ) ) =>
        ( ret = "NULL" )

\* value of a string of decimal digits
DigitVal ( ch ) == CHOOSE i \in 0 .. 9 : DigitChar [ i + 1 ] = ch

RECURSIVE Num ( _ )
Num ( s ) ==
    IF Len ( s ) = 0 THEN 0
    ELSE ( 10 * Num ( SubSeq ( s, 1, Len ( s ) - 1 ) ) ) +
         DigitVal ( s [ Len ( s ) ] )

\* C7: once its options parse, date_exec returns 0 having printed
\* YYYY-MM-DD HH:MM:SS UTC when the clock source was available, and returns
\* non-zero when it was not.
DateStatus ==
    ( date_pc = "done" ) =>
        IF clock_ok
        THEN /\ rc = 0
             /\ Len ( out ) = 24
             /\ Num ( SubSeq ( out, 1, 4 ) ) = gmtime_tm.tm_year + 1900
             /\ Num ( SubSeq ( out, 6, 7 ) ) = gmtime_tm.tm_mon + 1
             /\ Num ( SubSeq ( out, 9, 10 ) ) = gmtime_tm.tm_mday
             /\ Num ( SubSeq ( out, 12, 13 ) ) = gmtime_tm.tm_hour
             /\ Num ( SubSeq ( out, 15, 16 ) ) = gmtime_tm.tm_min
             /\ Num ( SubSeq ( out, 18, 19 ) ) = gmtime_tm.tm_sec
             /\ << out [ 5 ], out [ 8 ], out [ 11 ], out [ 14 ], out [ 17 ] >>
                    = << "-", "-", " ", ":", ":" >>
             /\ SubSeq ( out, 20, 24 ) = << " ", "U", "T", "C", "\n" >>
        ELSE rc # 0

\* C8: for t >= 0 the remaining day count is never negative, every year
\* iteration that stays in the loop strictly decreases it, the year search
\* ends with 0 <= remaining days < length of the year reached, every month
\* iteration that stays in the loop moves to the next month, and both
\* searches end.
DecoderTerminates ==
    /\ [] ( ( ( timep >= 0 ) /\ ( pc \in { "year", "month" } ) ) =>
                ( day >= 0 ) )
    /\ [] [ ( ( timep >= 0 ) /\ ( pc = "year" ) /\ ( pc' = "year" ) ) =>
                ( ( day' < day ) /\ ( year' = year + 1 ) ) ]_vars
    /\ [] ( ( ( timep >= 0 ) /\ ( pc = "month" ) ) =>
                /\ gmtime_tm.tm_yday >= 0
                /\ gmtime_tm.tm_yday < YearLength ( year )
                /\ month < 12 )
    /\ [] [ ( ( timep >= 0 ) /\ ( pc = "month" ) /\ ( pc' = "month" ) ) =>
                ( ( day' < day ) /\ ( month' = month + 1 ) ) ]_vars
    /\ ( ( timep >= 0 ) /\ ( pc = "year" ) ) ~> ( pc = "month" )
    /\ ( ( timep >= 0 ) /\ ( pc = "month" ) ) ~> ( pc = "idle" )

\* the year search has walked from 1970 to 2026 and left the loop
TerminatesWitness ==
    /\ pc = "month"
    /\ timep = 1793494861
    /\ year = 2026
    /\ gmtime_tm.tm_yday = 304

\* C9: gmtime(t), t >= 0, yields a valid calendar date.
ValidDate ==
    Decoded =>
        /\ gmtime_tm.tm_year >= 70
        /\ gmtime_tm.tm_mon \in 0 .. 11
        /\ gmtime_tm.tm_mday >= 1
        /\ gmtime_tm.tm_mday <= MonthLength ( gmtime_tm.tm_mon,
                                               gmtime_tm.tm_year + 1900 )
        /\ gmtime_tm.tm_hour \in 0 .. 23
        /\ gmtime_tm.tm_min \in 0 .. 59
        /\ gmtime_tm.tm_sec \in 0 .. 59
        /\ gmtime_tm.tm_wday \in 0 .. 6
        /\ gmtime_tm.tm_yday >= 0
        /\ gmtime_tm.tm_yday < YearLength ( gmtime_tm.tm_year + 1900 )

\* the last second of 1972-12-31, day 365 of a leap year, has been decoded
ValidDateWitness ==
    /\ Decoded
    /\ timep = 94694399
    /\ gmtime_tm.tm_mon = 11
    /\ gmtime_tm.tm_mday = 31
    /\ gmtime_tm.tm_yday = 365
    /\ gmtime_tm.tm_hour = 23
    /\ gmtime_tm.tm_sec = 59

\* C10: for a valid broken-down time with tm_year >= 70 mktime returns the
\* value of the POSIX formula, with tm_yday as mktime computed it.
PosixFormula ==
    ( Decoded /\ mk /\ ( gmtime_tm.tm_year >= 70 ) ) =>
        LET tm == gmtime_tm
        IN  seconds =
                tm.tm_sec + ( tm.tm_min * 60 ) + ( tm.tm_hour * 3600 ) +
                ( tm.tm_yday * 86400 ) +
                ( ( tm.tm_year - 70 ) * 31536000 ) +
                ( CDiv ( tm.tm_year - 69, 4 ) * 86400 ) -
                ( CDiv ( tm.tm_year - 1, 100 ) * 86400 ) +
                ( CDiv ( tm.tm_year + 299, 400 ) * 86400 )

\* mktime has encoded 2001-01-01, the first year whose 400-year term is 1
PosixWitness ==
    Decoded /\ mk /\ ( gmtime_tm.tm_year = 101 ) /\ ( seconds = 978307200 )

====
